---- MODULE Spec2Model ----
(***************************************************************************)
(* State-machine model of talkback.initiator.TalkBackInitiator: the RTSP   *)
(* talk-back handshake (start), the OPTIONS keep-alive (keep_alive) and    *)
(* the TEARDOWN/close (terminate), against a camera that may answer each   *)
(* request with any response of a small set, or not at all.                *)
(***************************************************************************)
EXTENDS Integers, Sequences, FiniteSets, TLC

\* ───────────── bounds ─────────────
\* number of public calls (start / keep_alive / terminate) made on the instance
MaxCalls == 3
\* number of fragments that may lie unread in the socket's receive buffer
MaxPending == 1

\* ───────────── values ─────────────
None == "none"
Host == "cam"
UriBase == "rtsp://cam:554/live"
ContentBase == "rtsp://cam/live"
Realm == "cam-realm"
Nonces == {"n1"}
SessionIds == {"abc123", "xyz789"}
\* first port of server_port=P-(P+1) in a SETUP response
ServerPorts == {6000}

\* ───────────── what the socket can deliver to one _send ─────────────
\* An SDP body is the list of pieces sdp.split("m=") yields: the session-level
\* preamble, then one piece per media description. Of each piece only two
\* facts are read: whether it contains "a=sendonly", and the stripped text
\* after "a=control:" (None when the piece has no such line, "" when empty).
Section(so, ctl) == [sendonly |-> so, control |-> ctl]
Preamble == Section(FALSE, None)
SdpEmpty == <<Preamble>>
SdpRecvOnly == <<Preamble, Section(FALSE, "track1")>>
SdpTwoTrack == <<Preamble, Section(FALSE, "track1"), Section(TRUE, "track2")>>
SdpTwoSend == <<Preamble, Section(TRUE, "track2"), Section(TRUE, "track3")>>
SdpNoControl == <<Preamble, Section(TRUE, None), Section(FALSE, "track2")>>
SdpBlankControl == <<Preamble, Section(TRUE, ""), Section(TRUE, "track3")>>
Sdps == {SdpEmpty, SdpRecvOnly, SdpTwoTrack, SdpTwoSend, SdpNoControl, SdpBlankControl}

\* A response is the text recv() returned, reduced to what the code's regular
\* expressions, startswith() and split() look at. status 0 is the empty string;
\* hb tells whether the text contains "\r\n\r\n", the end of a header block;
\* sdp is what follows the header block when there is one.
Response(st, rl, nc, cb, sdp, sid, sp) ==
    [kind |-> "resp", status |-> st, realm |-> rl, nonce |-> nc,
     content_base |-> cb, sdp |-> sdp, session |-> sid, server_port |-> sp,
     hb |-> TRUE]

EmptyResponse == [Response(0, None, None, None, SdpEmpty, None, 0) EXCEPT !.hb = FALSE]
SimpleResponses == {Response(st, None, None, None, SdpEmpty, None, 0) : st \in {200, 454}}
ChallengeResponses == {Response(401, Realm, n, None, SdpEmpty, None, 0) : n \in Nonces}
DescribeResponses ==
    {Response(200, None, None, ContentBase, sdp, None, 0) : sdp \in Sdps \ {SdpEmpty}}
    \cup {Response(200, None, None, None, SdpTwoTrack, None, 0),
          Response(454, None, None, ContentBase, SdpTwoTrack, None, 0)}
SetupResponses ==
    {Response(200, None, None, None, SdpEmpty, sid, p) : sid \in SessionIds, p \in ServerPorts}
    \cup {Response(200, None, None, None, SdpEmpty, None, p) : p \in ServerPorts}
    \cup {Response(454, None, None, None, SdpEmpty, "abc123", p) : p \in ServerPorts}
    \cup {Response(200, None, None, None, SdpEmpty, "abc123", 0)}
Responses ==
    {EmptyResponse} \cup SimpleResponses \cup ChallengeResponses
        \cup DescribeResponses \cup SetupResponses

\* sendall() or recv() raised (timeout, reset, broken pipe): no response at all
Failure(k) == [EmptyResponse EXCEPT !.kind = k]
IOOutcomes == Responses \cup {Failure("oserror")}
\* no _send was made
NoIO == Failure("none")
\* terminate() drops what its TEARDOWN got (raise_on_error=False, the result
\* unused): only whether _send raised can matter
TeardownOutcomes == SimpleResponses \cup {EmptyResponse, Failure("oserror")}

\* A response may reach the socket in two fragments, cut after the status line
\* or between the header block and the body. A fragment that does not begin
\* with the status line has status -1: text that is not empty and does not
\* start with "RTSP/1.0". The status line and the body on their own have no
\* "\r\n\r\n".
StatusLineOf(r) ==
    [Response(r.status, None, None, None, SdpEmpty, None, 0) EXCEPT !.hb = FALSE]
AfterStatusLine(r) == [r EXCEPT !.status = -1]
HeaderBlockOf(r) == [r EXCEPT !.sdp = SdpEmpty]
BodyOf(r) == [Response(-1, None, None, None, r.sdp, None, 0) EXCEPT !.hb = FALSE]
Fragments(r, cut) ==
    CASE cut = "status" -> <<StatusLineOf(r), AfterStatusLine(r)>>
      [] cut = "body" -> <<HeaderBlockOf(r), BodyOf(r)>>
      [] OTHER -> <<r>>
\* what of the answer io travels to the socket: nothing when the camera stays
\* silent or closes the connection
Arriving(io, cut) ==
    IF io.kind = "resp" /\ io.status > 0 THEN Fragments(io, cut) ELSE <<>>

\* The text a followed by the text b, as the code reads it. startswith() sees
\* the beginning of a; each re.search takes the first match, a's before b's;
\* the SDP is what follows the first "\r\n\r\n": when that lies in a, all of b
\* is appended to a's body, so that b's text up to its first "m=" falls into
\* the last piece of a's body and b's pieces follow; when it lies in b, b's
\* body alone.
First(x, y) == IF x # None THEN x ELSE y
JoinSection(p, q) ==
    Section(p.sendonly \/ q.sendonly, First(p.control, q.control))
JoinSdp(x, y) ==
    SubSeq(x, 1, Len(x) - 1) \o <<JoinSection(x[Len(x)], y[1])>> \o Tail(y)
Join(a, b) ==
    [kind |-> "resp",
     status |-> a.status,
     realm |-> IF a.realm # None /\ a.nonce # None THEN a.realm ELSE b.realm,
     nonce |-> IF a.realm # None /\ a.nonce # None THEN a.nonce ELSE b.nonce,
     content_base |-> First(a.content_base, b.content_base),
     sdp |-> IF a.hb THEN JoinSdp(a.sdp, b.sdp) ELSE IF b.hb THEN b.sdp ELSE SdpEmpty,
     session |-> First(a.session, b.session),
     server_port |-> IF a.server_port # 0 THEN a.server_port ELSE b.server_port,
     hb |-> a.hb \/ b.hb]
RECURSIVE JoinAll(_)
JoinAll(seq) ==
    IF Len(seq) = 1 THEN seq[1]
    ELSE Join(JoinAll(SubSeq(seq, 1, Len(seq) - 1)), seq[Len(seq)])
\* resp2.split("\r\n\r\n", 1)[1] if "\r\n\r\n" in resp2 else ""
SdpOf(resp) == IF resp.hb THEN resp.sdp ELSE SdpEmpty

VARIABLES
    username, password,     \* self._url.username / .password (None when absent)
    sock,                   \* self._sock: 0 is None, else the connection's number
    session_id, realm, nonce, uri_base, back_channel_port, cseq,
    talk_url,               \* local of _do_rtsp_handshake (None outside it): the track's control
    conns,                  \* connections created by this instance and still open
    nconn,                  \* number of connections created so far
    wire,                   \* requests handed to sendall(), in send order
    reply,                  \* what the last _send of the running/last call got
    answer,                 \* the whole response the camera gave to that request
    pending,                \* fragments sent to self._sock that no recv() has returned yet
    fragmenting,            \* whether the transport may deliver a response in fragments
    mark,                   \* Len(wire) when the running/last public call began
    pc,                     \* position inside start(), "idle" between calls
    exc,                    \* exception travelling to start()'s except clause
    result,                 \* what the last public call gave its caller
    calls

vars == <<username, password, sock, session_id, realm, nonce, uri_base,
          back_channel_port, cseq, talk_url, conns, nconn, wire, reply, answer,
          pending, fragmenting, mark, pc, exc, result, calls>>

NoResult == [op |-> None, exc |-> None, ok |-> FALSE, host |-> None, port |-> 0]

\* TalkBackInitiator.__init__: self._cseq = 5
InitCseq == 5
\* _do_rtsp_handshake: self._cseq = 4 before PLAY
PlayCseq == 4

Constructed ==
    /\ username \in {None, "admin"}
    /\ password \in {None, "1234"}
    /\ sock = 0
    /\ session_id = None
    /\ realm = None
    /\ nonce = None
    /\ uri_base = None
    /\ back_channel_port = 0
    /\ cseq = InitCseq
    /\ talk_url = None
    /\ conns = {}
    /\ nconn = 0
    /\ wire = <<>>
    /\ reply = NoIO
    /\ answer = NoIO
    /\ pending = <<>>
    /\ mark = 0
    /\ pc = "idle"
    /\ exc = None
    /\ result = NoResult
    /\ calls = 0

\* every response arrives in one piece
Init == Constructed /\ fragmenting = FALSE
\* responses may arrive in fragments
InitFragments == Constructed /\ fragmenting = TRUE

\* ───────────── helpers ─────────────
\* _build_authorization: the exception it raises (None when it returns) and the
\* realm/nonce it puts in the header. "assert self._realm and self._nonce" is an
\* AssertionError when no challenge was captured.
BuildAuthorization(method, uri) ==
    IF username = None \/ password = None
    THEN [exc |-> "RTSPAuthError", realm |-> None, nonce |-> None]
    ELSE IF realm = None \/ nonce = None
    THEN [exc |-> "AssertionError", realm |-> None, nonce |-> None]
    ELSE [exc |-> None, realm |-> realm, nonce |-> nonce]

\* one request as it appears on the wire
Request(method, uri, cs, authorized, rl, nc, session) ==
    [conn |-> sock, method |-> method, uri |-> uri, cseq |-> cs,
     authorized |-> authorized, realm |-> rl, nonce |-> nc, session |-> session]

\* The ways the transport may deliver the answer io to the next _send: how the
\* answer is cut, and how many of the fragments on their way (those left from
\* before, then the answer's) are in the receive buffer when recv() runs.
\* take = 0 is recv() running into the socket's timeout (or sendall() raising)
\* before any of them has arrived: what is on its way then reaches the socket
\* after the call and is left for the next recv().
Deliveries(io) ==
    {d \in [cut : {"whole", "status", "body"}, take : 0..(MaxPending + 2)] :
        LET stream == pending \o Arriving(io, d.cut)
        IN  /\ d.cut # "whole" =>
                  /\ fragmenting /\ io.kind = "resp" /\ io.status > 0
                  /\ d.cut = "body" => io.sdp # SdpEmpty
            /\ d.take \in 0..Len(stream)
            /\ Len(stream) - d.take <= MaxPending}
\* the delivery of an answer that is not looked at
AnyDelivery(io) ==
    [cut |-> "whole",
     take |-> IF pending \o Arriving(io, "whole") # <<>> THEN 1 ELSE 0]

\* _send: raises when no socket is held and when sendall() or recv() raises; the
\* wire is the list of requests handed to sendall(). The single recv(8192)
\* returns, as one text, everything that is in the receive buffer when it
\* runs, "" when the camera closed the connection with nothing on its way,
\* and raises when nothing arrives in time; what arrives later stays in the
\* socket for the next recv().
Send(req, io, d) ==
    LET stream == pending \o Arriving(io, d.cut)
    IN  IF sock = 0
        THEN [exc |-> "RTSPHandshakeError", wire |-> wire, reply |-> reply,
              answer |-> answer, pending |-> pending]
        ELSE IF d.take = 0 /\ io.kind = "resp" /\ stream = <<>>
        THEN [exc |-> None, wire |-> Append(wire, req), reply |-> EmptyResponse,
              answer |-> io, pending |-> <<>>]
        ELSE IF d.take = 0
        THEN [exc |-> "OSError", wire |-> Append(wire, req),
              reply |-> Failure("oserror"), answer |-> io, pending |-> stream]
        ELSE [exc |-> None, wire |-> Append(wire, req),
              reply |-> JoinAll(SubSeq(stream, 1, d.take)),
              answer |-> io,
              pending |-> SubSeq(stream, d.take + 1, Len(stream))]

\* resp.startswith("RTSP/1.0 200")
StartsWith200(resp) == resp.status = 200

\* what _send_simple raises on a response that is not a 200 when raise_on_error
\* is set: resp.splitlines()[0] of the empty string is an IndexError
SimpleFailure(resp) ==
    IF resp.status = 0 THEN "IndexError" ELSE "RTSPHandshakeError"

\* variant: _send_simple leaves the Session header out
SessionHeaderOmitted(session) == None

\* "if session: headers.append(f"Session: {session}")" of _send_simple
SessionHeader(session) == IF session = "" THEN None ELSE session

\* _send_simple
SendSimple(method, uri, cs, session, raise_on_error, io, d) ==
    LET a == BuildAuthorization(method, uri)
        s == Send(Request(method, uri, cs, TRUE, a.realm, a.nonce, SessionHeader(session)),
                  io, d)
        ok == StartsWith200(s.reply)
    IN  IF a.exc # None
        THEN [exc |-> a.exc, ok |-> FALSE, wire |-> wire, reply |-> reply,
              answer |-> answer, pending |-> pending]
        ELSE IF s.exc # None
        THEN [exc |-> s.exc, ok |-> FALSE, wire |-> s.wire, reply |-> s.reply,
              answer |-> s.answer, pending |-> s.pending]
        ELSE [exc |-> IF ~ok /\ raise_on_error THEN SimpleFailure(s.reply) ELSE None,
              ok |-> ok, wire |-> s.wire, reply |-> s.reply,
              answer |-> s.answer, pending |-> s.pending]

\* re.search(r'WWW-Authenticate:\s*Digest realm="([^"]+)",\s*nonce="([^"]+)"', resp1)
HasChallenge(resp) == resp.realm # None /\ resp.nonce # None

\* variant: the loop takes the first piece with an a=control line, sendonly or not
RECURSIVE FindAnyControl(_, _)
FindAnyControl(sdp, i) ==
    IF i > Len(sdp) THEN None
    ELSE IF sdp[i].control # None THEN sdp[i].control
    ELSE FindAnyControl(sdp, i + 1)

\* variant: the loop has no break, the last matching piece wins
RECURSIVE FindLastTalkControl(_, _)
FindLastTalkControl(sdp, i) ==
    IF i > Len(sdp) THEN None
    ELSE LET rest == FindLastTalkControl(sdp, i + 1)
         IN  IF rest # None THEN rest
             ELSE IF sdp[i].sendonly /\ sdp[i].control # None THEN sdp[i].control
             ELSE None

\* the loop over sdp.split("m="): the control of the first piece that has both
\* a=sendonly and an a=control line (the loop breaks there, also when that
\* control is blank); None when no piece has both
RECURSIVE FindTalkControl(_, _)
FindTalkControl(sdp, i) ==
    IF i > Len(sdp) THEN None
    ELSE IF sdp[i].sendonly /\ sdp[i].control # None THEN sdp[i].control
    ELSE FindTalkControl(sdp, i + 1)

\* variant: the result of the track loop is not tested
NoTalkControlNever(ctl) == FALSE

\* "if not talk_control"
NoTalkControl(ctl) == ctl = None \/ ctl = ""

\* variant: the TEARDOWN reuses self._cseq
TeardownCseqStale == cseq

\* CSeq of the TEARDOWN that terminate() sends: self._cseq is read, not advanced
TeardownCseq == cseq + 1

\* variant: keep_alive forgets to advance self._cseq
KeepAliveCseqStale == cseq

\* "self._cseq += 1" of keep_alive: the CSeq of the OPTIONS request
KeepAliveCseq == cseq + 1

\* variant: keep_alive tests the base URI alone
KeepAliveNoSessionUriOnly == uri_base = None

\* "if not self._sock or not self._uri_base" of keep_alive
KeepAliveNoSession == sock = 0 \/ uri_base = None

\* "if not self._sock or not self._uri_base" of terminate
TerminateNothingToDo == sock = 0 \/ uri_base = None

\* variant: terminate() lets the TEARDOWN's exception through
TerminatePropagatesAll(e) == e

\* "except Exception as e: warning(...)": what leaves terminate() when the
\* TEARDOWN raised e
TerminatePropagates(e) == None

\* variant: terminate() closes the socket but keeps the handle
SockAfterCloseKept == sock

\* the socket left in self._sock by terminate()'s innermost finally
SockAfterClose == 0

\* variant: the second port of the pair, int(sp.group(2))
ServerPortOfSecond(resp) == resp.server_port + 1

\* int(sp.group(1)) of r"server_port=(\d+)-(\d+)"
ServerPortOf(resp) == resp.server_port

Raised(op, e) == [op |-> op, exc |-> e, ok |-> FALSE, host |-> None, port |-> 0]
Returned(op, ok) == [op |-> op, exc |-> None, ok |-> ok, host |-> None, port |-> 0]

\* terminate(): nothing without a socket and a base URI; else a TEARDOWN whose
\* outcome is dropped, then close() and self._sock = None. No other field of
\* the instance is written. What the closed socket had not handed out is gone.
TerminateRun(io) ==
    IF TerminateNothingToDo
    THEN [exc |-> None, wire |-> wire, sock |-> sock, conns |-> conns,
          pending |-> pending]
    ELSE LET s == SendSimple("TEARDOWN", uri_base, TeardownCseq, session_id, FALSE,
                             io, AnyDelivery(io))
         IN  [exc |-> TerminatePropagates(s.exc), wire |-> s.wire,
              sock |-> SockAfterClose, conns |-> conns \ {sock}, pending |-> <<>>]

\* ───────────── start() ─────────────
\* start() is entered: self._uri_base is set, then socket.create_connection.
\* A socket still held in self._sock is dropped without close(): whether the
\* runtime closes it at once (reference counting) or not is left open.
StartCall ==
    /\ pc = "idle"
    /\ calls < MaxCalls
    /\ calls' = calls + 1
    /\ mark' = Len(wire)
    /\ reply' = NoIO
    /\ answer' = NoIO
    /\ uri_base' = UriBase
    /\ \E connected \in BOOLEAN, finalized \in BOOLEAN :
          IF connected
          THEN /\ nconn' = nconn + 1
               /\ sock' = nconn + 1
               /\ conns' = (IF finalized THEN conns \ {sock} ELSE conns) \cup {nconn + 1}
               /\ pending' = <<>>
               /\ pc' = "describe1"
               /\ exc' = None
          ELSE /\ UNCHANGED <<nconn, sock, conns, pending>>
               /\ pc' = "except"
               /\ exc' = "OSError"
    /\ UNCHANGED <<username, password, session_id, realm, nonce,
                   back_channel_port, cseq, talk_url, wire, result, fragmenting>>

\* 1) unauthenticated DESCRIBE, CSeq 1; 2) the digest challenge
Describe1 ==
    /\ pc = "describe1"
    /\ \E io \in IOOutcomes : \E d \in Deliveries(io) :
          LET s == Send(Request("DESCRIBE", uri_base, 1, FALSE, None, None, None), io, d)
          IN  /\ wire' = s.wire
              /\ reply' = s.reply
              /\ answer' = s.answer
              /\ pending' = s.pending
              /\ IF s.exc # None
                 THEN /\ exc' = s.exc /\ pc' = "except"
                      /\ UNCHANGED <<realm, nonce>>
                 ELSE IF ~HasChallenge(s.reply)
                 THEN /\ exc' = "RTSPAuthError" /\ pc' = "except"
                      /\ UNCHANGED <<realm, nonce>>
                 ELSE /\ realm' = s.reply.realm /\ nonce' = s.reply.nonce
                      /\ exc' = None /\ pc' = "describe2"
    /\ UNCHANGED <<username, password, sock, session_id, uri_base, back_channel_port,
                   cseq, talk_url, conns, nconn, mark, result, calls, fragmenting>>

\* 3) authenticated DESCRIBE, CSeq 2; 4) Content-Base; 5) the sendonly track
Describe2 ==
    /\ pc = "describe2"
    /\ \E io \in IOOutcomes : \E d \in Deliveries(io) :
          LET a == BuildAuthorization("DESCRIBE", uri_base)
              s == Send(Request("DESCRIBE", uri_base, 2, TRUE, a.realm, a.nonce, None), io, d)
              ctl == FindTalkControl(SdpOf(s.reply), 1)
          IN  IF a.exc # None
              THEN /\ exc' = a.exc /\ pc' = "except"
                   /\ UNCHANGED <<wire, reply, answer, pending, talk_url>>
              ELSE /\ wire' = s.wire
                   /\ reply' = s.reply
                   /\ answer' = s.answer
                   /\ pending' = s.pending
                   /\ IF s.exc # None
                      THEN exc' = s.exc /\ pc' = "except" /\ UNCHANGED talk_url
                      ELSE IF s.reply.content_base = None \/ NoTalkControl(ctl)
                      THEN exc' = "RTSPHandshakeError" /\ pc' = "except" /\ UNCHANGED talk_url
                      ELSE exc' = None /\ pc' = "setup" /\ talk_url' = ctl
    /\ UNCHANGED <<username, password, sock, session_id, realm, nonce, uri_base,
                   back_channel_port, cseq, conns, nconn, mark, result, calls, fragmenting>>

\* 6) SETUP of the talk-back track, CSeq 3; Session and server_port of the answer
Setup ==
    /\ pc = "setup"
    /\ \E io \in IOOutcomes : \E d \in Deliveries(io) :
          LET a == BuildAuthorization("SETUP", talk_url)
              s == Send(Request("SETUP", talk_url, 3, TRUE, a.realm, a.nonce, None), io, d)
          IN  IF a.exc # None
              THEN /\ exc' = a.exc /\ pc' = "except"
                   /\ UNCHANGED <<wire, reply, answer, pending, session_id, back_channel_port>>
              ELSE /\ wire' = s.wire
                   /\ reply' = s.reply
                   /\ answer' = s.answer
                   /\ pending' = s.pending
                   /\ IF s.exc # None
                      THEN /\ exc' = s.exc /\ pc' = "except"
                           /\ UNCHANGED <<session_id, back_channel_port>>
                      ELSE IF s.reply.session = None
                      THEN /\ exc' = "RTSPHandshakeError" /\ pc' = "except"
                           /\ UNCHANGED <<session_id, back_channel_port>>
                      ELSE IF ServerPortOf(s.reply) = 0
                      THEN /\ exc' = "RTSPHandshakeError" /\ pc' = "except"
                           /\ session_id' = s.reply.session
                           /\ UNCHANGED back_channel_port
                      ELSE /\ exc' = None /\ pc' = "play"
                           /\ session_id' = s.reply.session
                           /\ back_channel_port' = ServerPortOf(s.reply)
    /\ UNCHANGED <<username, password, sock, realm, nonce, uri_base, cseq,
                   talk_url, conns, nconn, mark, result, calls, fragmenting>>

\* 7) PLAY with self._cseq = 4, then start() returns (host, port)
Play ==
    /\ pc = "play"
    /\ cseq' = PlayCseq
    /\ \E io \in IOOutcomes : \E d \in Deliveries(io) :
          LET s == SendSimple("PLAY", uri_base, PlayCseq, session_id, TRUE, io, d)
          IN  /\ wire' = s.wire
              /\ reply' = s.reply
              /\ answer' = s.answer
              /\ pending' = s.pending
              /\ IF s.exc # None
                 THEN exc' = s.exc /\ pc' = "except" /\ UNCHANGED <<result, talk_url>>
                 ELSE /\ exc' = None /\ pc' = "idle"
                      /\ talk_url' = None
                      /\ result' = [op |-> "start", exc |-> None, ok |-> TRUE,
                                    host |-> Host, port |-> back_channel_port]
    /\ UNCHANGED <<username, password, sock, session_id, realm, nonce, uri_base,
                   back_channel_port, conns, nconn, mark, calls, fragmenting>>

\* start()'s "except Exception: self.terminate(); raise"
StartExcept ==
    /\ pc = "except"
    /\ \E io \in TeardownOutcomes :
          LET t == TerminateRun(io)
          IN  /\ wire' = t.wire
              /\ sock' = t.sock
              /\ conns' = t.conns
              /\ pending' = t.pending
              /\ result' = Raised("start", IF t.exc # None THEN t.exc ELSE exc)
    /\ exc' = None
    /\ talk_url' = None
    /\ pc' = "idle"
    /\ UNCHANGED <<username, password, session_id, realm, nonce, uri_base,
                   back_channel_port, cseq, nconn, reply, answer, mark, calls, fragmenting>>

\* ───────────── keep_alive() ─────────────
KeepAlive ==
    /\ pc = "idle"
    /\ calls < MaxCalls
    /\ calls' = calls + 1
    /\ mark' = Len(wire)
    /\ IF KeepAliveNoSession
       THEN /\ result' = Returned("keep_alive", FALSE)
            /\ reply' = NoIO
            /\ answer' = NoIO
            /\ UNCHANGED <<cseq, wire, pending>>
       ELSE /\ cseq' = KeepAliveCseq
            /\ \E io \in IOOutcomes : \E d \in Deliveries(io) :
                  LET s == SendSimple("OPTIONS", uri_base, KeepAliveCseq, session_id, TRUE,
                                      io, d)
                  IN  /\ wire' = s.wire
                      /\ reply' = s.reply
                      /\ answer' = s.answer
                      /\ pending' = s.pending
                      /\ result' = IF s.exc # None THEN Raised("keep_alive", s.exc)
                                   ELSE Returned("keep_alive", s.ok)
    /\ UNCHANGED <<username, password, sock, session_id, realm, nonce, uri_base,
                   back_channel_port, talk_url, conns, nconn, pc, exc, fragmenting>>

\* ───────────── terminate() ─────────────
Terminate ==
    /\ pc = "idle"
    /\ calls < MaxCalls
    /\ calls' = calls + 1
    /\ mark' = Len(wire)
    /\ reply' = NoIO
    /\ answer' = NoIO
    /\ \E io \in TeardownOutcomes :
          LET t == TerminateRun(io)
          IN  /\ wire' = t.wire
              /\ sock' = t.sock
              /\ conns' = t.conns
              /\ pending' = t.pending
              /\ result' = IF t.exc # None THEN Raised("terminate", t.exc)
                           ELSE Returned("terminate", FALSE)
    /\ UNCHANGED <<username, password, session_id, realm, nonce, uri_base,
                   back_channel_port, cseq, talk_url, nconn, pc, exc, fragmenting>>

Next ==
    \/ StartCall
    \/ Describe1
    \/ Describe2
    \/ Setup
    \/ Play
    \/ StartExcept
    \/ KeepAlive
    \/ Terminate

Spec == Init /\ [][Next]_vars
\* the same program over a transport that may fragment responses
SpecFragments == InitFragments /\ [][Next]_vars

\* ───────────── vocabulary of the properties ─────────────
Idle == pc = "idle"
StartFailed == Idle /\ result.op = "start" /\ result.exc # None
StartSucceeded == Idle /\ result.op = "start" /\ result.exc = None
HasCredentials == username # None /\ password # None

\* positions in wire of the requests of the running/last public call
CallRequests == (mark + 1)..Len(wire)
\* those of them that belong to the handshake
HandshakeRequests == {i \in CallRequests : wire[i].method # "TEARDOWN"}
StepOf(req) ==
    IF req.method = "DESCRIBE"
    THEN (IF req.authorized THEN "describe2" ELSE "describe1")
    ELSE req.method
\* the handshake step whose request was the last one sent in the call; reply
\* is what that request got
LastStep ==
    IF HandshakeRequests = {} THEN None
    ELSE StepOf(wire[CHOOSE i \in HandshakeRequests : \A j \in HandshakeRequests : j <= i])
Answered == reply.kind = "resp"
SendonlySections(sdp) == {i \in 1..Len(sdp) : sdp[i].sendonly}
Methods(seq) == [i \in 1..Len(seq) |-> StepOf(seq[i])]

\* C1: whenever start() has failed, the channel handle is null and no
\* connection opened by the instance is still open.
C1_FailedStartLeavesNothingOpen ==
    StartFailed => (sock = 0 /\ conns = {})

\* C2: keep_alive() never raises; it returns true exactly when the response
\* to its OPTIONS begins "RTSP/1.0 200".
C2_KeepAliveNeverRaises ==
    (Idle /\ result.op = "keep_alive") =>
        /\ result.exc = None
        /\ result.ok <=> (Answered /\ StartsWith200(reply))

\* C3 as stated: the CSeq values of all requests of the instance, in send
\* order, are strictly increasing.
C3_CseqIncreasingPerInstance ==
    \A i \in 1..(Len(wire) - 1) : wire[i].cseq < wire[i + 1].cseq

\* C3 amended: consecutive requests of the instance carry strictly increasing
\* CSeq values, except that the first request on a newly opened connection is
\* the DESCRIBE numbered 1.
C3_CseqRestartsOnlyOnNewConnection ==
    \A i \in 1..(Len(wire) - 1) :
        \/ wire[i].cseq < wire[i + 1].cseq
        \/ /\ wire[i].conn < wire[i + 1].conn
           /\ wire[i + 1].cseq = 1
           /\ wire[i + 1].method = "DESCRIBE"

\* a second connection was opened after requests numbered 5 or more
C3_Witness ==
    \E i \in 1..(Len(wire) - 1) :
        /\ wire[i].conn < wire[i + 1].conn
        /\ wire[i].cseq >= InitCseq
        /\ wire[i + 1].cseq = 1

\* C4: on one connection every request carries a CSeq strictly greater than
\* that of every request sent before it on that connection.
C4_CseqIncreasingPerConnection ==
    \A i, j \in 1..Len(wire) :
        (i < j /\ wire[i].conn = wire[j].conn) => wire[i].cseq < wire[j].cseq

\* one connection carried the handshake, a keep-alive and the TEARDOWN
C4_Witness ==
    \E i, j, k \in 1..Len(wire) :
        /\ i < j /\ j < k
        /\ wire[i].conn = wire[j].conn /\ wire[j].conn = wire[k].conn
        /\ wire[i].method = "PLAY"
        /\ wire[j].method = "OPTIONS"
        /\ wire[k].method = "TEARDOWN"

\* C5: on the authenticated DESCRIBE, SETUP and PLAY a response that is not a
\* 200 ends the handshake with RTSPHandshakeError: no later step is reached.
C5_NonSuccessIsFatal ==
    /\ pc \in {"setup", "play"} => StartsWith200(reply)
    /\ (/\ pc = "except"
        /\ LastStep \in {"describe2", "SETUP", "PLAY"}
        /\ Answered
        /\ ~StartsWith200(reply)) => exc = "RTSPHandshakeError"

\* C6: when the step-1 response carries no digest challenge, start() fails
\* with RTSPAuthError and the call has sent no request with an Authorization
\* header.
C6_NoChallengeNoAuthorizedRequest ==
    (/\ Idle
     /\ result.op = "start"
     /\ LastStep = "describe1"
     /\ Answered
     /\ ~HasChallenge(reply)) =>
        /\ result.exc = "RTSPAuthError"
        /\ \A i \in CallRequests : ~wire[i].authorized

\* C7: terminate() returns normally whenever it is called, leaves the instance
\* where keep_alive() returns false, and sends nothing when start() was never
\* called, when the last call was a failed start() and when it was terminate().
C7_TerminateIdempotent ==
    [][(Idle /\ pc' = "idle" /\ calls' = calls + 1 /\ result'.op = "terminate") =>
          /\ result'.exc = None
          /\ KeepAliveNoSession'
          /\ (uri_base = None \/ result.op = "terminate" \/ StartFailed) => wire' = wire
      ]_vars

\* a terminate() that sent nothing, after the TEARDOWN of a started session
C7_Witness ==
    /\ Idle
    /\ result = Returned("terminate", FALSE)
    /\ calls >= 3
    /\ mark = Len(wire)
    /\ Len(wire) >= 5
    /\ wire[Len(wire) - 1].method = "PLAY"
    /\ wire[Len(wire)].method = "TEARDOWN"
    /\ sock = 0

\* C8: keep_alive() without an active session (no start() yet, after a failed
\* start(), after terminate(), or with no socket held) returns false, sends
\* nothing and changes no field of the instance.
C8_KeepAliveWithoutSession ==
    [][(/\ Idle
        /\ pc' = "idle"
        /\ calls' = calls + 1
        /\ result'.op = "keep_alive"
        /\ (sock = 0 \/ uri_base = None \/ result.op = "terminate" \/ StartFailed)) =>
          /\ result' = Returned("keep_alive", FALSE)
          /\ wire' = wire
          /\ UNCHANGED <<sock, session_id, realm, nonce, uri_base,
                         back_channel_port, cseq, conns, nconn>>
      ]_vars

\* a keep_alive() that returned false on an instance that had connected before
C8_Witness ==
    /\ Idle
    /\ result = Returned("keep_alive", FALSE)
    /\ sock = 0
    /\ uri_base # None
    /\ Len(wire) > 0
    /\ mark = Len(wire)

\* the four answers of the end-to-end scenario
IsChallenge(r) == r.kind = "resp" /\ r.realm # None /\ r.nonce # None
IsGoodDescription(r) ==
    /\ r.kind = "resp" /\ r.status = 200 /\ r.content_base # None
    /\ Cardinality(SendonlySections(r.sdp)) = 1
    /\ \A i \in SendonlySections(r.sdp) : r.sdp[i].control \notin {None, ""}
IsGoodSetup(r) ==
    /\ r.kind = "resp" /\ r.status = 200
    /\ r.session \in SessionIds /\ r.server_port \in ServerPorts
IsOk(r) == r.kind = "resp" /\ r.status = 200

\* C9: with credentials, a challenge at step 1, a 200 with Content-Base and
\* one send-only track at step 2, a 200 with session id and server_port=P-..
\* at SETUP and a 200 at PLAY never lead into the failure path; the session
\* id and P of the SETUP answer are recorded; and a start() that returned has
\* sent exactly DESCRIBE, DESCRIBE, SETUP, PLAY on its connection and returned
\* (host, P) with that connection open.
C9_HappyPath ==
    /\ (HasCredentials /\ pc = "except") =>
          /\ ~(LastStep = "describe1" /\ IsChallenge(reply))
          /\ ~(LastStep = "describe2" /\ IsGoodDescription(reply))
          /\ ~(LastStep = "SETUP" /\ IsGoodSetup(reply))
          /\ ~(LastStep = "PLAY" /\ IsOk(reply))
    /\ pc = "play" =>
          /\ session_id = reply.session
          /\ back_channel_port = reply.server_port
    /\ StartSucceeded =>
          /\ Methods(SubSeq(wire, mark + 1, Len(wire)))
                = <<"describe1", "describe2", "SETUP", "PLAY">>
          /\ \A i \in CallRequests : wire[i].conn = sock
          /\ result.host = Host
          /\ result.port = back_channel_port
          /\ back_channel_port \in ServerPorts
          /\ sock \in conns
          /\ session_id \in SessionIds
          /\ wire[Len(wire)].session = session_id

\* start() returned ("cam", 6000) with session abc123 recorded
C9_Witness ==
    /\ StartSucceeded
    /\ result.port = 6000
    /\ session_id = "abc123"
    /\ IsOk(reply)
    /\ Len(wire) = mark + 4

\* C10: when the body of the authenticated DESCRIBE response has no a=sendonly
\* section, the handshake never reaches SETUP, start() fails with
\* RTSPHandshakeError, and its connection is closed when the error is raised.
C10_NoSendonlyTrack ==
    /\ pc \in {"setup", "play"} /\ LastStep = "describe2"
          => SendonlySections(reply.sdp) # {}
    /\ (/\ pc \in {"except", "idle"}
        /\ result.op = "start" \/ pc = "except"
        /\ LastStep = "describe2"
        /\ Answered
        /\ SendonlySections(reply.sdp) = {}) =>
          /\ pc = "except" => exc = "RTSPHandshakeError"
          /\ pc = "idle" =>
                /\ result.exc = "RTSPHandshakeError"
                /\ sock = 0
                /\ \A i \in CallRequests :
                      /\ wire[i].method \notin {"SETUP", "PLAY"}
                      /\ wire[i].conn \notin conns

\* a start() that failed on a description with Content-Base and a receive-only track
C10_Witness ==
    /\ StartFailed
    /\ LastStep = "describe2"
    /\ reply.content_base # None
    /\ reply.sdp = SdpRecvOnly
    /\ result.exc = "RTSPHandshakeError"
    /\ wire[Len(wire)].method = "TEARDOWN"

\* a step in which the body of terminate() ran: start()'s except clause, or a
\* call of terminate()
TerminateRan ==
    \/ pc = "except"
    \/ pc = "idle" /\ pc' = "idle" /\ calls' = calls + 1 /\ result'.op = "terminate"

\* C12: terminate() hands a TEARDOWN to the socket exactly when the instance
\* holds a socket and a base URI as it is entered, also after a handshake that
\* failed before a challenge was captured.
C12_TeardownIffChannelAndUri ==
    [][TerminateRan =>
          ((sock # 0 /\ uri_base # None) <=>
              (/\ Len(wire') = Len(wire) + 1
               /\ wire'[Len(wire')].method = "TEARDOWN"))
      ]_vars

\* C13: after terminate() returned the instance holds no session identifier,
\* realm, nonce or negotiated port; and a request of a start() carries a
\* Session header only once a SETUP of that same start() was sent.
C13_SessionStateCleared ==
    /\ (Idle /\ result.op = "terminate") =>
          /\ session_id = None
          /\ realm = None
          /\ nonce = None
          /\ back_channel_port = 0
    /\ (pc # "idle" \/ result.op = "start") =>
          \A i \in CallRequests :
              (wire[mark + 1].method = "DESCRIBE" /\ wire[i].session # None) =>
                  \E j \in CallRequests : j < i /\ wire[j].method = "SETUP"

\* C16: where terminate() is about to build an Authorization header with a
\* credential missing or no challenge captured, the failure is an RTSPAuthError.
C16_AuthorizationFailsWithAuthError ==
    (/\ pc = "except"
     /\ ~TerminateNothingToDo
     /\ (username = None \/ password = None \/ realm = None \/ nonce = None)) =>
        BuildAuthorization("TEARDOWN", uri_base).exc = "RTSPAuthError"

\* number of requests sent on the connection of wire[i] up to and including it
Ordinal(i) == Cardinality({j \in 1..i : wire[j].conn = wire[i].conn})

\* C18: the n-th request sent on a connection carries CSeq n.
C18_CseqConsecutive ==
    \A i \in 1..Len(wire) : wire[i].cseq = Ordinal(i)

\* C20: the instance never has more than one connection open, and an open
\* connection is the one held in self._sock.
C20_AtMostOneOpenConnection ==
    /\ Cardinality(conns) <= 1
    /\ \A c \in conns : c = sock

\* wire[i] was sent after a SETUP on the same connection
AfterSetup(i) ==
    \E j \in 1..(i - 1) : wire[j].conn = wire[i].conn /\ wire[j].method = "SETUP"

\* C14: the requests sent on a connection after its SETUP are authenticated
\* and all carry the same Session value, the one held by the instance while it
\* holds that connection; when the SETUP response assigned an identifier, that
\* value is this identifier, and PLAY and OPTIONS are never sent without one.
C14_SessionCarried ==
    /\ \A i \in 1..Len(wire) : AfterSetup(i) =>
          /\ wire[i].authorized
          /\ wire[i].method \in {"PLAY", "OPTIONS", "TEARDOWN"}
          /\ wire[i].method \in {"PLAY", "OPTIONS"} => wire[i].session # None
          /\ wire[i].conn = sock => wire[i].session = session_id
          /\ \A k \in i..Len(wire) :
                wire[k].conn = wire[i].conn => wire[k].session = wire[i].session
    /\ (LastStep = "SETUP" /\ Answered /\ reply.session # None) =>
          \A i \in CallRequests : AfterSetup(i) => wire[i].session = reply.session

\* PLAY, a keep-alive and the TEARDOWN of one connection all carry the
\* identifier that its SETUP response assigned
C14_Witness ==
    /\ Idle /\ result.op = "terminate"
    /\ \E i, j, k \in 1..Len(wire) :
          /\ i < j /\ j < k
          /\ wire[i].conn = wire[k].conn /\ wire[j].conn = wire[k].conn
          /\ wire[i].method = "PLAY"
          /\ wire[j].method = "OPTIONS"
          /\ wire[k].method = "TEARDOWN"
          /\ wire[k].session = "xyz789"
          /\ session_id = "xyz789"

\* C15: between public operations the socket handle is set exactly after a
\* start() that returned, and from then on until terminate() or a failed
\* start(); a handle that is set is an open connection. keep_alive() leaves
\* the handle as it was.
C15_ChannelHandle ==
    [][pc' = "idle" =>
          /\ sock' # 0 <=>
                \/ result'.op = "start" /\ result'.exc = None
                \/ result'.op = "keep_alive" /\ pc = "idle" /\ sock # 0
          /\ sock' # 0 => sock' \in conns'
          /\ pc = "idle" => sock = 0 \/ sock \in conns
      ]_vars

\* a keep-alive raised and the handle of the session is still set; earlier on
\* the instance a start() had failed and left the handle null
C15_Witness ==
    /\ Idle
    /\ result.op = "keep_alive" /\ result.exc # None
    /\ sock # 0 /\ sock \in conns
    /\ nconn >= 1

\* sections of a description that the track loop can stop at
TalkSections(sdp) == {i \in SendonlySections(sdp) : sdp[i].control # None}
\* the first of them carries a control that is not blank
Resolvable(sdp) ==
    \E i \in TalkSections(sdp) :
        /\ \A j \in TalkSections(sdp) : i <= j
        /\ sdp[i].control # ""

\* C17 as stated: the handshake goes on to SETUP only when exactly one section
\* of the description is marked send-only.
C17_TwoSendonlyIsError ==
    pc = "setup" => Cardinality(SendonlySections(reply.sdp)) = 1

\* C17 amended: the handshake goes on to SETUP exactly when the description
\* has a send-only section with a control line and the first such section's
\* control is not blank, and it sets up that first section, however many
\* sections are marked send-only; otherwise start() fails with
\* RTSPHandshakeError and no SETUP is sent.
C17_FirstSendonlyTrackTaken ==
    /\ pc = "setup" =>
          \E i \in TalkSections(reply.sdp) :
              /\ \A j \in TalkSections(reply.sdp) : i <= j
              /\ talk_url = reply.sdp[i].control
    /\ (LastStep = "describe2" /\ Answered /\ reply.content_base # None) =>
          /\ pc = "setup" <=> Resolvable(reply.sdp)
          /\ StartFailed => result.exc = "RTSPHandshakeError"

\* a description with two send-only sections was accepted and its first
\* section is the one to be set up
C17_Witness ==
    /\ pc = "setup"
    /\ reply.sdp = SdpTwoSend
    /\ Cardinality(SendonlySections(reply.sdp)) = 2
    /\ talk_url = "track2"

\* the steps of the requests sent on connection c, in send order
ConnSteps(c) == Methods(SelectSeq(wire, LAMBDA r : r.conn = c))
\* what may follow a step on one connection
Successors(step) ==
    CASE step = "describe1" -> {"describe2", "TEARDOWN"}
      [] step = "describe2" -> {"SETUP", "TEARDOWN"}
      [] step = "SETUP" -> {"PLAY", "TEARDOWN"}
      [] step = "PLAY" -> {"OPTIONS", "TEARDOWN"}
      [] step = "OPTIONS" -> {"OPTIONS", "TEARDOWN"}
      [] OTHER -> {}
\* every connection's requests follow the handshake order, and a connection on
\* which TEARDOWN was sent is closed and no longer held
HandshakeOrder ==
    \A c \in 1..nconn :
        LET q == ConnSteps(c)
        IN  /\ Len(q) > 0 => q[1] = "describe1"
            /\ \A n \in 2..Len(q) : q[n] \in Successors(q[n - 1])
            /\ (Len(q) > 0 /\ q[Len(q)] = "TEARDOWN") => (c # sock /\ c \notin conns)
\* this step hands a request of the given handshake step to the socket
Sends(step) ==
    /\ Len(wire') = Len(wire) + 1
    /\ StepOf(wire'[Len(wire')]) = step

\* C19: on each connection the requests follow the order DESCRIBE, DESCRIBE,
\* SETUP, PLAY, OPTIONS..., with TEARDOWN at most once and last; the
\* authenticated DESCRIBE is sent with the challenge of the step-1 response,
\* SETUP for a track resolved from the description, PLAY with the session and
\* port of the SETUP response, and OPTIONS only on the connection of a start()
\* whose PLAY was answered 200.
C19_HandshakeOrder ==
    /\ []HandshakeOrder
    /\ [][/\ Sends("describe2") =>
                /\ IsChallenge(reply)
                /\ realm = reply.realm /\ nonce = reply.nonce
                /\ wire'[Len(wire')].realm = reply.realm
                /\ wire'[Len(wire')].nonce = reply.nonce
          /\ Sends("SETUP") =>
                /\ Resolvable(reply.sdp)
                /\ ~NoTalkControl(wire'[Len(wire')].uri)
          /\ Sends("PLAY") =>
                /\ Answered /\ reply.session # None /\ reply.server_port # 0
                /\ session_id = reply.session
                /\ back_channel_port = reply.server_port
          /\ (pc = "play" /\ pc' = "idle") => IsOk(reply')
          /\ Sends("OPTIONS") =>
                /\ pc = "idle" /\ sock # 0
                /\ wire'[Len(wire')].conn = sock
                /\ \/ StartSucceeded /\ LastStep = "PLAY" /\ IsOk(reply)
                   \/ result.op = "keep_alive"
         ]_vars

\* one connection carried the whole order, keep-alive and TEARDOWN included
C19_Witness ==
    /\ nconn = 1
    /\ ConnSteps(1) = <<"describe1", "describe2", "SETUP", "PLAY", "OPTIONS", "TEARDOWN">>
    /\ sock = 0 /\ conns = {}

\* C11: what a _send takes as the response to its request is the whole
\* response the camera gave to that request, however the transport delivered
\* it: never a part of it, never what was left of an earlier response.
C11_WholeResponsePaired ==
    Answered => reply = answer

====
